---- MODULE Spec2Model ----
(***************************************************************************)
(* Guess the Number (App.tsx): the round state machine, the name prompt,   *)
(* the leaderboard and its AsyncStorage persistence, as one state machine. *)
(*                                                                         *)
(* Every React state cell of App is a variable.  Every event of the screen *)
(* is one action, taken with the state of the latest committed render: a   *)
(* change of the text of a field, or the press of a control, which calls   *)
(* its handler.  A control takes events while the screen shows it enabled: *)
(* the guess field and Guess while the round is not over, the content of a *)
(* Modal while the Modal is visible.                                       *)
(***************************************************************************)
EXTENDS Integers, Sequences, FiniteSets, TLC

VARIABLES
    difficultyKey,       \* useState<DifficultyKey>                (line 64)
    target,              \* useState<number>                       (line 70)
    attempts,            \* useState<number>                       (line 71)
    hint,                \* useState<string>                       (line 72)
    guessText,           \* useState<string>                       (line 73)
    gameOver,            \* useState<boolean>                      (line 74)
    leaderboard,         \* useState<LeaderboardEntry[]>           (line 76)
    leaderboardOpen,     \* useState<boolean>                      (line 77)
    nameModalOpen,       \* useState<boolean>                      (line 79)
    playerName,          \* useState<string>                       (line 80)
    pendingWinAttempts,  \* useState<number | null>                (line 81)
    effectPending,       \* the [difficultyKey] effect is scheduled, not yet run
    storage,             \* the value AsyncStorage holds under the leaderboard key
    io,                  \* AsyncStorage requests awaited, in the order issued
    now                  \* the clock Date.now() / new Date() reads

vars == <<difficultyKey, target, attempts, hint, guessText, gameOver, leaderboard,
          leaderboardOpen, nameModalOpen, playerName, pendingWinAttempts,
          effectPending, storage, io, now>>

-----------------------------------------------------------------------------
(* Bounds of the model *)

\* Math.random() is drawn from { k / RandSteps : k \in 0 .. RandSteps-1 }
RandSteps == 3
\* the clock runs over 0 .. MaxTime
MaxTime == 0
\* a win is saved only while the leaderboard holds fewer entries than this
MaxBoard == 1
\* a request is issued only while fewer requests than this are awaited
MaxInFlight == 1

-----------------------------------------------------------------------------
(* Constants of the program *)

DifficultyKeys == {"easy", "medium", "hard"}

DIFFICULTIES ==
    << [key |-> "easy",   min |-> 1, max |-> 20,  maxAttempts |-> 6],
       [key |-> "medium", min |-> 1, max |-> 50,  maxAttempts |-> 8],
       [key |-> "hard",   min |-> 1, max |-> 100, maxAttempts |-> 10] >>

\* DIFFICULTIES.find((d) => d.key === k) ?? DIFFICULTIES[0]
FindDifficulty(k) ==
    IF \E i \in 1..Len(DIFFICULTIES) : DIFFICULTIES[i].key = k
    THEN DIFFICULTIES[CHOOSE i \in 1..Len(DIFFICULTIES) :
                          /\ DIFFICULTIES[i].key = k
                          /\ \A j \in 1..(i-1) : DIFFICULTIES[j].key # k]
    ELSE DIFFICULTIES[1]

\* const difficulty = useMemo(..., [difficultyKey])
difficulty == FindDifficulty(difficultyKey)

LeaderboardCap == 50

-----------------------------------------------------------------------------
(* Values *)

\* number | null
Null == [some |-> FALSE, val |-> 0]
Some(v) == [some |-> TRUE, val |-> v]

\* a message with up to two interpolated numbers
Msg(text, a, b) == [text |-> text, a |-> a, b |-> b]

-----------------------------------------------------------------------------
(* Texts: a text is a sequence of characters.  A character is a string of   *)
(* one character; a character that a TLA+ string cannot hold is written by  *)
(* its code point, as in "U+00A0"                                           *)

Digits == <<"0", "1", "2", "3", "4", "5", "6", "7", "8", "9">>

\* \d of the regular expression at line 306: the ten ASCII digits
IsDigit(c) == \E i \in 1..10 : Digits[i] = c

DigitValue(c) == (CHOOSE i \in 1..10 : Digits[i] = c) - 1

\* WhiteSpace and LineTerminator of ECMAScript, the characters that
\* String.prototype.trim and Number strip from both ends of a text
WhiteSpace ==
    { " ", "\t", "\n", "\r", "\f", "U+000B", "U+00A0", "U+FEFF", "U+1680",
      "U+2000", "U+2001", "U+2002", "U+2003", "U+2004", "U+2005", "U+2006",
      "U+2007", "U+2008", "U+2009", "U+200A", "U+2028", "U+2029", "U+202F",
      "U+205F", "U+3000" }

IsSpace(c) == c \in WhiteSpace

\* t.replace(/[^\d]/g, ''): the digits of t, in their order
StripNonDigits(t) == SelectSeq(t, IsDigit)

\* s without its leading white space
TrimStart(s) ==
    IF \A i \in 1..Len(s) : IsSpace(s[i]) THEN <<>>
    ELSE SubSeq(s, CHOOSE i \in 1..Len(s) :
                       ~IsSpace(s[i]) /\ \A j \in 1..(i-1) : IsSpace(s[j]), Len(s))

\* s without its trailing white space
TrimEnd(s) ==
    IF \A i \in 1..Len(s) : IsSpace(s[i]) THEN <<>>
    ELSE SubSeq(s, 1, CHOOSE i \in 1..Len(s) :
                          ~IsSpace(s[i]) /\ \A j \in (i+1)..Len(s) : IsSpace(s[j]))

\* String.prototype.trim
Trim(s) == TrimEnd(TrimStart(s))

-----------------------------------------------------------------------------
(* Number(text): the text read as a StringNumericLiteral and rounded to the  *)
(* nearest IEEE 754 double, ties to even.  Numerals are handled as digit     *)
(* sequences, so that no intermediate value leaves the integers of TLC.      *)
(* A number is [finite, whole, n]: finite is Number.isFinite, whole is       *)
(* Number.isInteger, and n is the value when it is whole (its integer part   *)
(* when it is not), held at Saturation from there on                         *)

\* numbers of this size and above are all taken to be Saturation: the program
\* compares a guess with min, max and target only, which are at most 100
Saturation == 1000000000

AllDigits(s) == \A i \in 1..Len(s) : IsDigit(s[i])

AllZeros(s) == \A i \in 1..Len(s) : s[i] = "0"

Zeros(n) == [i \in 1..n |-> "0"]

\* s without its leading zeros
StripZeros(s) ==
    IF AllZeros(s) THEN <<>>
    ELSE SubSeq(s, CHOOSE i \in 1..Len(s) :
                       s[i] # "0" /\ \A j \in 1..(i-1) : s[j] = "0", Len(s))

\* the value of a numeral of at most nine digits
RECURSIVE DigitsValue(_)
DigitsValue(s) ==
    IF s = <<>> THEN 0
    ELSE 10 * DigitsValue(SubSeq(s, 1, Len(s) - 1)) + DigitValue(s[Len(s)])

\* the value of a numeral of any length, held at Saturation
Saturated(s) ==
    IF Len(StripZeros(s)) > 9 THEN Saturation ELSE DigitsValue(StripZeros(s))

\* s < t for numerals without leading zeros
Less(s, t) ==
    \/ Len(s) < Len(t)
    \/ /\ Len(s) = Len(t)
       /\ \E i \in 1..Len(s) :
            /\ DigitValue(s[i]) < DigitValue(t[i])
            /\ \A j \in 1..(i-1) : s[j] = t[j]

\* 2^1024 - 2^970, halfway between Number.MAX_VALUE and 2^1024: a value is
\* rounded to Infinity from here on
Overflow ==
    <<"1", "7", "9", "7", "6", "9", "3", "1", "3", "4", "8", "6", "2",
       "3", "1", "5", "8", "0", "7", "9", "3", "7", "2", "8", "9", "7",
       "1", "4", "0", "5", "3", "0", "3", "4", "1", "5", "0", "7", "9",
       "9", "3", "4", "1", "3", "2", "7", "1", "0", "0", "3", "7", "8",
       "2", "6", "9", "3", "6", "1", "7", "3", "7", "7", "8", "9", "8",
       "0", "4", "4", "4", "9", "6", "8", "2", "9", "2", "7", "6", "4",
       "7", "5", "0", "9", "4", "6", "6", "4", "9", "0", "1", "7", "9",
       "7", "7", "5", "8", "7", "2", "0", "7", "0", "9", "6", "3", "3",
       "0", "2", "8", "6", "4", "1", "6", "6", "9", "2", "8", "8", "7",
       "9", "1", "0", "9", "4", "6", "5", "5", "5", "5", "4", "7", "8",
       "5", "1", "9", "4", "0", "4", "0", "2", "6", "3", "0", "6", "5",
       "7", "4", "8", "8", "6", "7", "1", "5", "0", "5", "8", "2", "0",
       "6", "8", "1", "9", "0", "8", "9", "0", "2", "0", "0", "0", "7",
       "0", "8", "3", "8", "3", "6", "7", "6", "2", "7", "3", "8", "5",
       "4", "8", "4", "5", "8", "1", "7", "7", "1", "1", "5", "3", "1",
       "7", "6", "4", "4", "7", "5", "7", "3", "0", "2", "7", "0", "0",
       "6", "9", "8", "5", "5", "5", "7", "1", "3", "6", "6", "9", "5",
       "9", "6", "2", "2", "8", "4", "2", "9", "1", "4", "8", "1", "9",
       "8", "6", "0", "8", "3", "4", "9", "3", "6", "4", "7", "5", "2",
       "9", "2", "7", "1", "9", "0", "7", "4", "1", "6", "8", "4", "4",
       "4", "3", "6", "5", "5", "1", "0", "7", "0", "4", "3", "4", "2",
       "7", "1", "1", "5", "5", "9", "6", "9", "9", "5", "0", "8", "0",
       "9", "3", "0", "4", "2", "8", "8", "0", "1", "7", "7", "9", "0",
       "4", "1", "7", "4", "4", "9", "7", "7", "9", "2" >>

\* 2^52: from here on every double is an integer
TwoTo52 ==
    <<"4", "5", "0", "3", "5", "9", "9", "6", "2", "7", "3", "7", "0", "4", "9", "6">>

\* the integer numeral s halved, rounded down
Halve(s) ==
    [i \in 1..Len(s) |->
        Digits[((DigitValue(s[i]) + (IF i > 1 THEN 10 * (DigitValue(s[i-1]) % 2) ELSE 0))
                \div 2) + 1]]

\* the number of binary digits of the integer numeral s
RECURSIVE BitLength(_)
BitLength(s) == IF AllZeros(s) THEN 0 ELSE 1 + BitLength(Halve(s))

\* the numeral s doubled: a digit takes a carry when the digit behind it
\* is 5 or more
DoubledNumeral(s) ==
    LET t == <<"0">> \o s
    IN  [i \in 1..Len(t) |->
            Digits[((2 * DigitValue(t[i])) % 10)
                   + (IF i < Len(t) /\ DigitValue(t[i+1]) >= 5 THEN 1 ELSE 0) + 1]]

\* the numeral s doubled k times, without leading zeros: one half of the
\* doublings, then the other; the test of Len(half) has half evaluated
\* before it is doubled further
RECURSIVE TimesPowerOfTwo(_, _)
TimesPowerOfTwo(s, k) ==
    IF k = 0 THEN StripZeros(s)
    ELSE IF k = 1 THEN StripZeros(DoubledNumeral(s))
    ELSE LET half == TimesPowerOfTwo(s, k \div 2)
         IN  IF Len(half) < 0 THEN half
             ELSE TimesPowerOfTwo(half, k - (k \div 2))

\* 0.f <= 2^-k, that is f * 2^k <= 10^Len(f)
AtMostPow(f, k) ==
    LET n == TimesPowerOfTwo(f, k)
        one == <<"1">> \o Zeros(Len(f))
    IN  n = one \/ Less(n, one)

\* the digits of 1 - 0.f, for 0.f > 0
Complement(f) ==
    LET m == CHOOSE i \in 1..Len(f) : f[i] # "0" /\ \A j \in (i+1)..Len(f) : f[j] = "0"
    IN  [i \in 1..Len(f) |->
            IF i < m THEN Digits[(9 - DigitValue(f[i])) + 1]
            ELSE IF i = m THEN Digits[(10 - DigitValue(f[i])) + 1]
            ELSE "0"]

NaN == [finite |-> FALSE, whole |-> FALSE, n |-> 0]

Infinite == [finite |-> FALSE, whole |-> FALSE, n |-> Saturation]

Whole(n) == [finite |-> TRUE, whole |-> TRUE, n |-> n]

\* the double nearest to ip.fp, two numerals: an integer when ip.fp is one,
\* when ip >= 2^52, and when the fraction is within half a unit in the last
\* place of the double below or above it
RoundedDecimal(ip, fp) ==
    LET int == StripZeros(ip)
        halfUlp == IF int = <<>> THEN 54 ELSE 54 - BitLength(int)
    IN  IF ~Less(int, Overflow) THEN Infinite
        ELSE IF AllZeros(fp) THEN Whole(Saturated(int))
        ELSE IF ~Less(int, TwoTo52) THEN Whole(Saturation)
        ELSE IF int = <<>> /\ AtMostPow(fp, 1075) THEN Whole(0)
        ELSE IF int # <<>> /\ AtMostPow(fp, halfUlp) THEN Whole(Saturated(int))
        ELSE IF AtMostPow(Complement(fp), halfUlp)
        THEN Whole(IF Saturated(int) = Saturation THEN Saturation ELSE Saturated(int) + 1)
        ELSE [finite |-> TRUE, whole |-> FALSE, n |-> Saturated(int)]

\* exponents are held within -ExponentCap .. ExponentCap: a text is far
\* shorter, so that a larger exponent gives the same number
ExponentCap == 10000000

\* the value of ExponentPart without its "e": a sign and digits
ExponentValue(x) ==
    LET neg == x # <<>> /\ Head(x) = "-"
        ds == IF x # <<>> /\ Head(x) \in {"+", "-"} THEN Tail(x) ELSE x
        v == IF Len(StripZeros(ds)) > 7 THEN ExponentCap ELSE DigitsValue(StripZeros(ds))
    IN  IF neg THEN 0 - v ELSE v

IsExponent(x) ==
    LET ds == IF x # <<>> /\ Head(x) \in {"+", "-"} THEN Tail(x) ELSE x
    IN  ds # <<>> /\ AllDigits(ds)

\* the digits ds with the decimal point behind the first p of them
Scaled(ds, p) ==
    LET lead == Len(ds) - Len(StripZeros(ds))
    IN  IF AllZeros(ds) THEN Whole(0)
        ELSE IF p - lead > Len(Overflow) THEN Infinite
        ELSE IF p - lead < 0 - 330 THEN Whole(0)
        ELSE IF p <= 0 THEN RoundedDecimal(<<>>, Zeros(0 - p) \o ds)
        ELSE IF p >= Len(ds) THEN RoundedDecimal(ds \o Zeros(p - Len(ds)), <<>>)
        ELSE RoundedDecimal(SubSeq(ds, 1, p), SubSeq(ds, p + 1, Len(ds)))

\* StrUnsignedDecimalLiteral: Infinity, or digits, digits "." digits? or
\* "." digits, each with an optional exponent
UnsignedNumber(s) ==
    LET hasExp == \E q \in 1..Len(s) : s[q] \in {"e", "E"}
        e == IF hasExp THEN CHOOSE q \in 1..Len(s) :
                                s[q] \in {"e", "E"} /\ \A r \in 1..(q-1) : s[r] \notin {"e", "E"}
             ELSE Len(s) + 1
        m == SubSeq(s, 1, e - 1)
        x == SubSeq(s, e + 1, Len(s))
        hasPoint == \E q \in 1..Len(m) : m[q] = "."
        p == IF hasPoint THEN CHOOSE q \in 1..Len(m) : m[q] = "." /\ \A r \in 1..(q-1) : m[r] # "."
             ELSE Len(m) + 1
        ip == SubSeq(m, 1, p - 1)
        fp == SubSeq(m, p + 1, Len(m))
    IN  IF s = <<"I", "n", "f", "i", "n", "i", "t", "y">> THEN Infinite
        ELSE IF /\ AllDigits(ip) /\ AllDigits(fp) /\ (ip # <<>> \/ fp # <<>>)
                /\ hasExp => IsExponent(x)
        THEN Scaled(ip \o fp, Len(ip) + (IF hasExp THEN ExponentValue(x) ELSE 0))
        ELSE NaN

\* the digits of the literals 0x.., 0o.. and 0b..
RadixDigits ==
    <<"0", "1", "2", "3", "4", "5", "6", "7", "8", "9", "a", "b", "c", "d", "e", "f">>

UpperRadixDigits ==
    <<"0", "1", "2", "3", "4", "5", "6", "7", "8", "9", "A", "B", "C", "D", "E", "F">>

IsRadixDigit(c, radix) ==
    \E i \in 1..radix : RadixDigits[i] = c \/ UpperRadixDigits[i] = c

RadixDigitValue(c) ==
    (CHOOSE i \in 1..16 : RadixDigits[i] = c \/ UpperRadixDigits[i] = c) - 1

\* the binary digits of a literal whose digits have width binary digits each
Bits(s, width) ==
    [i \in 1..(width * Len(s)) |->
        LET v == RadixDigitValue(s[((i - 1) \div width) + 1])
            k == width - 1 - ((i - 1) % width)
        IN  IF (v \div (2 ^ k)) % 2 = 1 THEN "1" ELSE "0"]

\* the value of at most 30 binary digits
RECURSIVE BitsValue(_)
BitsValue(b) ==
    IF b = <<>> THEN 0
    ELSE 2 * BitsValue(SubSeq(b, 1, Len(b) - 1)) + (IF b[Len(b)] = "1" THEN 1 ELSE 0)

\* NonDecimalIntegerLiteral without its prefix: 2^1024 - 2^970 is 54 ones
\* followed by 970 zeros
RadixNumber(s, radix, width) ==
    LET b == StripZeros(Bits(s, width))
    IN  IF s = <<>> \/ \E i \in 1..Len(s) : ~IsRadixDigit(s[i], radix) THEN NaN
        ELSE IF Len(b) > 1024 \/ (Len(b) = 1024 /\ \A i \in 1..54 : b[i] = "1")
        THEN Infinite
        ELSE IF Len(b) > 30 \/ BitsValue(b) > Saturation THEN Whole(Saturation)
        ELSE Whole(BitsValue(b))

\* Number(s) for a text s without white space at its ends
ToNumber(s) ==
    IF s = <<>> THEN Whole(0)
    ELSE IF Len(s) >= 2 /\ s[1] = "0" /\ s[2] \in {"x", "X"}
    THEN RadixNumber(SubSeq(s, 3, Len(s)), 16, 4)
    ELSE IF Len(s) >= 2 /\ s[1] = "0" /\ s[2] \in {"o", "O"}
    THEN RadixNumber(SubSeq(s, 3, Len(s)), 8, 3)
    ELSE IF Len(s) >= 2 /\ s[1] = "0" /\ s[2] \in {"b", "B"}
    THEN RadixNumber(SubSeq(s, 3, Len(s)), 2, 1)
    ELSE IF Head(s) = "-"
    THEN LET u == UnsignedNumber(Tail(s))
         IN  [finite |-> u.finite, whole |-> u.whole, n |-> 0 - u.n]
    ELSE IF Head(s) = "+" THEN UnsignedNumber(Tail(s))
    ELSE UnsignedNumber(s)

\* parseGuess (lines 138-144)
parseGuess(text) ==
    LET trimmed == Trim(text)
        num == ToNumber(trimmed)
    IN  IF trimmed = <<>> THEN Null
        ELSE IF ~num.finite \/ ~num.whole THEN Null
        ELSE Some(num.n)

-----------------------------------------------------------------------------
(* Inputs *)

\* 2^32 + 1, and the numeral of LongGuessLen nines, which Number reads as
\* Infinity: the guess field sets no limit on the length of its text
LongGuessLen == 309
WideGuess == <<"4", "2", "9", "4", "9", "6", "7", "2", "9", "7">>
LongGuess == [i \in 1..LongGuessLen |-> "9"]

\* what the player types into the guess field
TypedGuesses ==
    { <<>>, <<"7">>, <<"1", "0">>, <<"5">>, <<"0">>, <<"-", "7">>, <<"1", ".", "0">>,
      WideGuess, LongGuess }

\* what the player types into it where the leaderboard and its storage are
\* followed as well
AppGuesses == { <<"5">>, <<"7">> }

\* Math.random() \in [0, 1), as the numerator over RandSteps
RandomDraws == 0 .. (RandSteps - 1)

\* the draw without its "+ min"
randomIntInclusive_NoMin(min, max, k) == (k * (max - min + 1)) \div RandSteps

\* Math.floor(Math.random() * (max - min + 1)) + min, with Math.random() = k / RandSteps
randomIntInclusive(min, max, k) == ((k * (max - min + 1)) \div RandSteps) + min

-----------------------------------------------------------------------------
(* Round engine *)

\* the limit compared with > instead of >=
attemptLimitReached_Strict(nextAttempts) == nextAttempts > difficulty.maxAttempts

attemptLimitReached(nextAttempts) == nextAttempts >= difficulty.maxAttempts

\* startNewGame without its setPendingWinAttempts(null)
startNewGame_KeepsPendingWin(nextDifficultyKey, k) ==
    LET config == FindDifficulty(nextDifficultyKey)
    IN  /\ target' = randomIntInclusive(config.min, config.max, k)
        /\ attempts' = 0
        /\ guessText' = <<>>
        /\ gameOver' = FALSE
        /\ hint' = Msg("Guess a number between ${a} and ${b}.", config.min, config.max)
        /\ pendingWinAttempts' = pendingWinAttempts
        /\ nameModalOpen' = FALSE

\* startNewGame(nextDifficultyKey) with Math.random() = k / RandSteps
startNewGame(nextDifficultyKey, k) ==
    LET config == FindDifficulty(nextDifficultyKey)
    IN  /\ target' = randomIntInclusive(config.min, config.max, k)
        /\ attempts' = 0
        /\ guessText' = <<>>
        /\ gameOver' = FALSE
        /\ hint' = Msg("Guess a number between ${a} and ${b}.", config.min, config.max)
        /\ pendingWinAttempts' = Null
        /\ nameModalOpen' = FALSE

\* React runs the passive effects of a committed render before it handles the
\* next input event, so no handler runs while the [difficultyKey] effect is due
Idle == ~effectPending

\* useEffect(() => startNewGame(difficulty.key), [difficultyKey]): on mount and
\* after every render in which difficultyKey changed
DifficultyEffect ==
    /\ effectPending
    /\ \E k \in RandomDraws : startNewGame(difficulty.key, k)
    /\ effectPending' = FALSE
    /\ UNCHANGED <<difficultyKey, leaderboard, leaderboardOpen, playerName,
                   storage, io, now>>

\* the chip press with the effect's dependency on difficultyKey left out
SelectDifficulty_NoEffect(d) ==
    /\ ~effectPending
    /\ difficultyKey' = d
    /\ effectPending' = FALSE
    /\ UNCHANGED <<target, attempts, hint, guessText, gameOver, leaderboard,
                   leaderboardOpen, nameModalOpen, playerName, pendingWinAttempts,
                   storage, io, now>>

\* chip onPress={() => setDifficultyKey(d.key)}: a set to the current value
\* renders nothing and schedules no effect
SelectDifficulty(d) ==
    /\ Idle
    /\ difficultyKey' = d
    /\ effectPending' = (d # difficultyKey)
    /\ UNCHANGED <<target, attempts, hint, guessText, gameOver, leaderboard,
                   leaderboardOpen, nameModalOpen, playerName, pendingWinAttempts,
                   storage, io, now>>

SetDifficultyKey == \E d \in DifficultyKeys : SelectDifficulty(d)

\* New Game onPress={() => startNewGame(difficulty.key)}
NewGame ==
    /\ Idle
    /\ \E k \in RandomDraws : startNewGame(difficulty.key, k)
    /\ UNCHANGED <<difficultyKey, leaderboard, leaderboardOpen, playerName,
                   effectPending, storage, io, now>>

\* handleSubmitGuess without its early return
AlreadyOver_Never == FALSE

\* if (gameOver) return;                                          (line 151)
AlreadyOver == gameOver

\* the range check without its lower bound
OutOfRange_UpperOnly(guess) == guess > difficulty.max

\* guess < difficulty.min || guess > difficulty.max                (line 158)
OutOfRange(guess) == guess < difficulty.min \/ guess > difficulty.max

\* the attempt limit tested before the guess is compared with the target
IsCorrect_UnlessLimitReached(guess) ==
    guess = target /\ ~attemptLimitReached(attempts + 1)

\* guess === target                                                (line 166)
IsCorrect(guess) == guess = target

\* the two hints exchanged
HigherLowerHint_Swapped(guess) ==
    IF guess < target THEN Msg("Lower.", 0, 0) ELSE Msg("Higher.", 0, 0)

\* the hint of a wrong guess                                  (lines 176-180)
HigherLowerHint(guess) ==
    IF guess < target THEN Msg("Higher.", 0, 0) ELSE Msg("Lower.", 0, 0)

\* handleSubmitGuess (lines 150-187) with guessText = text
SubmitGuess(text) ==
    LET guess == parseGuess(text)
        nextAttempts == attempts + 1
    IN  IF AlreadyOver
        THEN UNCHANGED <<attempts, hint, gameOver, pendingWinAttempts, nameModalOpen>>
        ELSE IF ~guess.some
        THEN /\ hint' = Msg("Please enter a whole number.", 0, 0)
             /\ UNCHANGED <<attempts, gameOver, pendingWinAttempts, nameModalOpen>>
        ELSE IF OutOfRange(guess.val)
        THEN /\ hint' = Msg("Your guess must be between ${a} and ${b}.",
                            difficulty.min, difficulty.max)
             /\ UNCHANGED <<attempts, gameOver, pendingWinAttempts, nameModalOpen>>
        ELSE /\ attempts' = nextAttempts
             /\ IF IsCorrect(guess.val)
                THEN /\ gameOver' = TRUE
                     /\ hint' = Msg(IF nextAttempts = 1
                                    THEN "Correct! You guessed it in ${a} attempt."
                                    ELSE "Correct! You guessed it in ${a} attempts.",
                                    nextAttempts, 0)
                     /\ pendingWinAttempts' = Some(nextAttempts)
                     /\ nameModalOpen' = TRUE
                ELSE /\ IF attemptLimitReached(nextAttempts)
                        THEN /\ gameOver' = TRUE
                             /\ hint' = Msg("Game over. The number was ${a}.", target, 0)
                        ELSE /\ gameOver' = gameOver
                             /\ hint' = HigherLowerHint(guess.val)
                     /\ UNCHANGED <<pendingWinAttempts, nameModalOpen>>

\* the text of the guess field becomes a text of texts: onChangeText keeps
\* its digits (line 306); the field is editable={!gameOver} (line 312)
TypeGuessOf(texts) ==
    /\ Idle
    /\ ~gameOver
    /\ \E t \in texts : guessText' = StripNonDigits(t)
    /\ UNCHANGED <<difficultyKey, target, attempts, hint, gameOver, leaderboard,
                   leaderboardOpen, nameModalOpen, playerName, pendingWinAttempts,
                   effectPending, storage, io, now>>

TypeGuess == TypeGuessOf(TypedGuesses)

AppTypeGuess == TypeGuessOf(AppGuesses)

\* handleSubmitGuess called in a render that holds text in the guess field
SubmitText(text) ==
    /\ Idle
    /\ SubmitGuess(text)
    /\ UNCHANGED <<difficultyKey, target, guessText, leaderboard, leaderboardOpen,
                   playerName, effectPending, storage, io, now>>

\* handleSubmitGuess (lines 150-187), called in the render that holds guessText
handleSubmitGuess == SubmitText(guessText)

\* Guess onPress and the field's onSubmitEditing (lines 311, 317): Guess is
\* disabled={gameOver} (line 318) and the field is not editable then
PressGuess == ~gameOver /\ handleSubmitGuess

-----------------------------------------------------------------------------
(* Leaderboard *)

\* what the player types into the name field
TypedNames == { <<>>, <<" ", "\t">>, <<"\t", "B", "o", " ">> }

\* const order: Record<DifficultyKey, number> = { easy: 0, medium: 1, hard: 2 }
order(k) == CASE k = "easy" -> 0 [] k = "medium" -> 1 [] k = "hard" -> 2

\* b.dateISO.localeCompare(a.dateISO) as called at line 120: toISOString()
\* texts have one fixed width, so they compare as their instants do; dateISO
\* holds the instant
localeCompare(b, a) == IF b < a THEN -1 ELSE IF b > a THEN 1 ELSE 0

\* the comparator with attempts compared before difficulty
compareEntries_AttemptsFirst(a, b) ==
    IF a.attempts # b.attempts THEN a.attempts - b.attempts
    ELSE IF a.difficulty # b.difficulty THEN order(a.difficulty) - order(b.difficulty)
    ELSE localeCompare(b.dateISO, a.dateISO)

\* the comparator handed to sort: negative when a ranks before b
compareEntries(a, b) ==
    IF a.difficulty # b.difficulty THEN order(a.difficulty) - order(b.difficulty)
    ELSE IF a.attempts # b.attempts THEN a.attempts - b.attempts
    ELSE localeCompare(b.dateISO, a.dateISO)

\* e placed into the sorted s behind every entry it does not rank before
InsertSorted(s, e) ==
    LET n == Cardinality({i \in 1..Len(s) : compareEntries(s[i], e) <= 0})
    IN  SubSeq(s, 1, n) \o <<e>> \o SubSeq(s, n + 1, Len(s))

\* rest merged into sorted entry by entry; the test of Len(sorted) has sorted
\* evaluated at every call, so that no chain of pending insertions builds up
RECURSIVE SortFrom(_, _)
SortFrom(sorted, rest) ==
    IF rest = <<>> \/ Len(sorted) < 0 THEN sorted
    ELSE SortFrom(InsertSorted(sorted, Head(rest)), Tail(rest))

\* [...entries].sort(cmp): Array.prototype.sort is stable
sortLeaderboard(entries) == SortFrom(<<>>, entries)

\* slice(0, n + 1)
Slice_OneMore(s, n) == SubSeq(s, 1, IF Len(s) < n + 1 THEN Len(s) ELSE n + 1)

\* Array.prototype.slice(0, n)
Slice(s, n) == SubSeq(s, 1, IF Len(s) < n THEN Len(s) ELSE n)

\* JSON.stringify(next): the text of an array
Stringify(entries) == [kind |-> "array", entries |-> entries]

\* values the key can hold: nothing, "", a text that is no JSON, the JSON of a
\* non-array, the JSON of an array
RawNull == [kind |-> "null", entries |-> <<>>]
RawEmpty == [kind |-> "empty", entries |-> <<>>]
RawCorrupt == [kind |-> "corrupt", entries |-> <<>>]
RawObject == [kind |-> "object", entries |-> <<>>]

\* an entry a previous run of the app has persisted; the id field, which no
\* operation reads, is left out of entries
OldEntry ==
    [playerName |-> <<"C", "y">>, difficulty |-> "easy", attempts |-> 5,
     rangeMax |-> 20, dateISO |-> 0]

\* what the key holds when the app starts
InitialStores == {RawNull, Stringify(<<OldEntry>>)}

\* Skip, the backdrop and onRequestClose of the name prompt, a Modal
\* visible={nameModalOpen} (line 353): setNameModalOpen(false)
SkipNamePrompt ==
    /\ Idle
    /\ nameModalOpen
    /\ nameModalOpen' = FALSE
    /\ UNCHANGED <<difficultyKey, target, attempts, hint, guessText, gameOver,
                   leaderboard, leaderboardOpen, playerName, pendingWinAttempts,
                   effectPending, storage, io, now>>

\* Leaderboard onPress={() => setLeaderboardOpen(true)}
OpenLeaderboard ==
    /\ Idle
    /\ leaderboardOpen' = TRUE
    /\ UNCHANGED <<difficultyKey, target, attempts, hint, guessText, gameOver,
                   leaderboard, nameModalOpen, playerName, pendingWinAttempts,
                   effectPending, storage, io, now>>

\* Close, the backdrop and onRequestClose of the leaderboard, a Modal
\* visible={leaderboardOpen}: setLeaderboardOpen(false)
CloseLeaderboard ==
    /\ Idle
    /\ leaderboardOpen
    /\ leaderboardOpen' = FALSE
    /\ UNCHANGED <<difficultyKey, target, attempts, hint, guessText, gameOver,
                   leaderboard, nameModalOpen, playerName, pendingWinAttempts,
                   effectPending, storage, io, now>>

\* the name taken without trim()
TrimmedName_Untrimmed(typed) == typed

\* const name = playerName.trim()                                  (line 191)
TrimmedName(typed) == Trim(typed)

\* handleSaveWin gets past both early returns (lines 192-199) and saves
Saves(typed) == pendingWinAttempts.some /\ TrimmedName(typed) # <<>>

\* handleSaveWin recording the attempts made before the winning guess
SaveWin_WithoutLastGuess(typed, t) ==
    LET winAttempts == pendingWinAttempts
        name == TrimmedName(typed)
    IN  IF ~winAttempts.some
        THEN /\ nameModalOpen' = FALSE
             /\ UNCHANGED <<leaderboard, io, now>>
        ELSE IF name = <<>>
        THEN UNCHANGED <<nameModalOpen, leaderboard, io, now>>
        ELSE LET entry == [playerName |-> name,
                           difficulty |-> difficulty.key,
                           attempts |-> winAttempts.val - 1,
                           rangeMax |-> difficulty.max,
                           dateISO |-> t]
                 next == Slice(sortLeaderboard(<<entry>> \o leaderboard), LeaderboardCap)
             IN  /\ now' = t
                 /\ leaderboard' = next
                 /\ io' = Append(io, [op |-> "setItem", val |-> Stringify(next)])
                 /\ UNCHANGED nameModalOpen

\* handleSaveWin up to its await (lines 189-212) with playerName = typed and
\* the clock at t
SaveWin(typed, t) ==
    LET winAttempts == pendingWinAttempts
        name == TrimmedName(typed)
    IN  IF ~winAttempts.some
        THEN /\ nameModalOpen' = FALSE
             /\ UNCHANGED <<leaderboard, io, now>>
        ELSE IF name = <<>>
        THEN UNCHANGED <<nameModalOpen, leaderboard, io, now>>
        ELSE LET entry == [playerName |-> name,
                           difficulty |-> difficulty.key,
                           attempts |-> winAttempts.val,
                           rangeMax |-> difficulty.max,
                           dateISO |-> t]
                 next == Slice(sortLeaderboard(<<entry>> \o leaderboard), LeaderboardCap)
             IN  /\ now' = t
                 /\ leaderboard' = next
                 /\ io' = Append(io, [op |-> "setItem", val |-> Stringify(next)])
                 /\ UNCHANGED nameModalOpen

\* the text of the name field becomes a text of names
\* (onChangeText={setPlayerName}, line 364); the field is in the name prompt
TypeNameOf(names) ==
    /\ Idle
    /\ nameModalOpen
    /\ \E typed \in names : playerName' = typed
    /\ UNCHANGED <<difficultyKey, target, attempts, hint, guessText, gameOver,
                   leaderboard, leaderboardOpen, nameModalOpen, pendingWinAttempts,
                   effectPending, storage, io, now>>

TypeName == TypeNameOf(TypedNames)

\* handleSaveWin up to its await (lines 189-212), called in the render that
\* holds playerName: a win is saved while the leaderboard holds fewer than
\* maxBoard entries and fewer than maxInFlight requests are awaited, and the
\* clock reads at most maxTime
SaveWinWithin(maxBoard, maxInFlight, maxTime) ==
    /\ Idle
    /\ \E t \in now .. maxTime :
         /\ Saves(playerName) => Len(leaderboard) < maxBoard /\ Len(io) < maxInFlight
         /\ ~Saves(playerName) => t = now
         /\ SaveWin(playerName, t)
    /\ UNCHANGED <<difficultyKey, target, attempts, hint, guessText, gameOver,
                   leaderboardOpen, playerName, pendingWinAttempts, effectPending,
                   storage>>

handleSaveWin == SaveWinWithin(MaxBoard, MaxInFlight, MaxTime)

\* Save onPress and the name field's onSubmitEditing (lines 369, 377), both
\* in the name prompt
PressSave == nameModalOpen /\ handleSaveWin

\* handleClearLeaderboard, called from Clear in the leaderboard: the alert,
\* answered Cancel
ClearCancelled ==
    /\ Idle
    /\ leaderboardOpen
    /\ UNCHANGED <<difficultyKey, target, attempts, hint, guessText, gameOver,
                   leaderboard, leaderboardOpen, nameModalOpen, playerName,
                   pendingWinAttempts, effectPending, storage, io, now>>

\* the removal is issued while fewer than maxInFlight requests are awaited
ClearWithin(maxInFlight) ==
    /\ Idle
    /\ leaderboardOpen
    /\ Len(io) < maxInFlight
    /\ leaderboard' = <<>>
    /\ io' = Append(io, [op |-> "removeItem", val |-> RawNull])
    /\ UNCHANGED <<difficultyKey, target, attempts, hint, guessText, gameOver,
                   leaderboardOpen, nameModalOpen, playerName, pendingWinAttempts,
                   effectPending, storage, now>>

\* handleClearLeaderboard: the alert, answered Clear (lines 226-229)
ClearConfirmed == ClearWithin(MaxInFlight)

-----------------------------------------------------------------------------
(* AsyncStorage: requests are served one at a time in the order issued; the  *)
(* request at the head of io is served, or fails, and the code awaiting it   *)
(* runs on                                                                   *)

\* the startup load taking what the key holds also when getItem has failed
LoadDone_Unguarded(ok) ==
    /\ io # <<>> /\ Head(io).op = "getItem"
    /\ leaderboard' =
          IF storage.kind = "array" THEN storage.entries ELSE leaderboard
    /\ io' = Tail(io)
    /\ UNCHANGED <<difficultyKey, target, attempts, hint, guessText, gameOver,
                   leaderboardOpen, nameModalOpen, playerName, pendingWinAttempts,
                   effectPending, storage, now>>

\* the startup load (lines 87-96) from getItem's answer on
LoadDone(ok) ==
    /\ io # <<>> /\ Head(io).op = "getItem"
    /\ leaderboard' =
          IF ok /\ storage.kind = "array" THEN storage.entries ELSE leaderboard
    /\ io' = Tail(io)
    /\ UNCHANGED <<difficultyKey, target, attempts, hint, guessText, gameOver,
                   leaderboardOpen, nameModalOpen, playerName, pendingWinAttempts,
                   effectPending, storage, now>>

\* persistLeaderboard without its try/catch: a failed setItem rejects the
\* await in handleSaveWin, whose remaining statements do not run
SaveDone_Rethrows(ok) ==
    /\ io # <<>> /\ Head(io).op = "setItem"
    /\ storage' = IF ok THEN Head(io).val ELSE storage
    /\ nameModalOpen' = (IF ok THEN FALSE ELSE nameModalOpen)
    /\ playerName' = (IF ok THEN <<>> ELSE playerName)
    /\ pendingWinAttempts' = (IF ok THEN Null ELSE pendingWinAttempts)
    /\ leaderboardOpen' = (IF ok THEN TRUE ELSE leaderboardOpen)
    /\ io' = Tail(io)
    /\ UNCHANGED <<difficultyKey, target, attempts, hint, guessText, gameOver,
                   leaderboard, effectPending, now>>

\* handleSaveWin resumed without its setNameModalOpen(false)
SaveDone_KeepsPrompt(ok) ==
    /\ io # <<>> /\ Head(io).op = "setItem"
    /\ storage' = IF ok THEN Head(io).val ELSE storage
    /\ nameModalOpen' = nameModalOpen
    /\ playerName' = <<>>
    /\ pendingWinAttempts' = Null
    /\ leaderboardOpen' = TRUE
    /\ io' = Tail(io)
    /\ UNCHANGED <<difficultyKey, target, attempts, hint, guessText, gameOver,
                   leaderboard, effectPending, now>>

\* persistLeaderboard's setItem served and handleSaveWin resumed (lines 105-111, 214-217)
SaveDone(ok) ==
    /\ io # <<>> /\ Head(io).op = "setItem"
    /\ storage' = IF ok THEN Head(io).val ELSE storage
    /\ nameModalOpen' = FALSE
    /\ playerName' = <<>>
    /\ pendingWinAttempts' = Null
    /\ leaderboardOpen' = TRUE
    /\ io' = Tail(io)
    /\ UNCHANGED <<difficultyKey, target, attempts, hint, guessText, gameOver,
                   leaderboard, effectPending, now>>

\* removeItem served (lines 228-232)
ClearDone(ok) ==
    /\ io # <<>> /\ Head(io).op = "removeItem"
    /\ storage' = IF ok THEN RawNull ELSE storage
    /\ io' = Tail(io)
    /\ UNCHANGED <<difficultyKey, target, attempts, hint, guessText, gameOver,
                   leaderboard, leaderboardOpen, nameModalOpen, playerName,
                   pendingWinAttempts, effectPending, now>>

-----------------------------------------------------------------------------
(* The app *)

\* the first committed render: the useState initial values, both mount
\* effects due, getItem issued by the first of them
Init ==
    /\ difficultyKey = "easy"
    /\ \E k \in RandomDraws :
         target = randomIntInclusive(FindDifficulty("easy").min, FindDifficulty("easy").max, k)
    /\ attempts = 0
    /\ hint = Msg("Pick a difficulty, then guess the number.", 0, 0)
    /\ guessText = <<>>
    /\ gameOver = FALSE
    /\ leaderboard = <<>>
    /\ leaderboardOpen = FALSE
    /\ nameModalOpen = FALSE
    /\ playerName = <<>>
    /\ pendingWinAttempts = Null
    /\ effectPending = TRUE
    /\ storage \in InitialStores
    /\ io = <<[op |-> "getItem", val |-> RawNull]>>
    /\ now = 0

Next ==
    \/ DifficultyEffect
    \/ SetDifficultyKey
    \/ NewGame
    \/ AppTypeGuess
    \/ PressGuess
    \/ TypeName
    \/ SkipNamePrompt
    \/ OpenLeaderboard
    \/ CloseLeaderboard
    \/ PressSave
    \/ ClearCancelled
    \/ ClearConfirmed
    \/ \E ok \in BOOLEAN : LoadDone(ok)
    \/ \E ok \in BOOLEAN : SaveDone(ok)
    \/ \E ok \in BOOLEAN : ClearDone(ok)

Spec == Init /\ [][Next]_vars

\* the round engine alone, with every text of TypedGuesses in the guess
\* field: the screen without the leaderboard and the Save of the name prompt
PlayNext ==
    \/ DifficultyEffect
    \/ SetDifficultyKey
    \/ NewGame
    \/ TypeGuess
    \/ PressGuess
    \/ SkipNamePrompt

PlaySpec == Init /\ [][PlayNext]_vars

-----------------------------------------------------------------------------
(* Properties of the round engine *)

\* a round is reset by startNewGame alone, called by New Game or by the effect
StartsNewGame == NewGame \/ DifficultyEffect

\* the guess handleSubmitGuess has just parsed from the text in the field
Submitted == parseGuess(guessText')

\* the guess is a whole number within [min, max] of the selected difficulty
Acceptable(g) == g.some /\ g.val >= difficulty.min /\ g.val <= difficulty.max

GameOverHint == Msg("Game over. The number was ${a}.", target, 0)

\* C1 (as claimed): in every reachable state, also between the selection of
\* another difficulty and the run of the reset effect,
\* 0 <= attempts <= maxAttempts of the selected difficulty.
C1_AttemptsWithinLimit == 0 <= attempts /\ attempts <= difficulty.maxAttempts

\* C2: on a terminal round handleSubmitGuess changes nothing, whatever the
\* text it is called with: attempts, target, hint, gameOver,
\* pendingWinAttempts, the name prompt and the leaderboard stay; the screen
\* takes no guess then; and a terminal round is left by startNewGame alone.
C2_TerminalSubmitIsNoOp ==
    /\ []((gameOver /\ Idle) =>
            /\ \A t \in TypedGuesses :
                  /\ ENABLED SubmitText(StripNonDigits(t))
                  /\ ~ENABLED (SubmitText(StripNonDigits(t)) /\ vars' # vars)
            /\ ~ENABLED PressGuess
            /\ ~ENABLED TypeGuess)
    /\ [][ (gameOver /\ ~gameOver') => StartsNewGame ]_vars

\* a medium round lost at the eighth guess, the last guess still in the field
C2_Witness ==
    /\ difficultyKey = "medium" /\ ~effectPending
    /\ gameOver /\ attempts = 8 /\ hint = GameOverHint
    /\ guessText = <<"1", "0">>

\* C3: on an active round a guess equal to the target adds exactly 1 to
\* attempts, ends the round, sets pendingWinAttempts to the new count and
\* opens the name prompt, also when the new count is maxAttempts.
C3_CorrectGuessWins ==
    [][ (~gameOver /\ handleSubmitGuess) =>
            LET g == Submitted
            IN  g = Some(target) =>
                    /\ attempts' = attempts + 1
                    /\ attempts' <= difficulty.maxAttempts
                    /\ gameOver'
                    /\ pendingWinAttempts' = Some(attempts')
                    /\ nameModalOpen' ]_vars

\* an easy round won with the sixth and last attempt
C3_Witness ==
    /\ difficultyKey = "easy" /\ ~effectPending
    /\ attempts = 6 /\ gameOver
    /\ pendingWinAttempts = Some(6) /\ nameModalOpen
    /\ hint = Msg("Correct! You guessed it in ${a} attempts.", 6, 0)

\* C4: on an active round an accepted guess other than the target that
\* brings attempts to maxAttempts ends the round as lost: gameOver, the hint
\* reveals the target, no pending win and no name prompt; and no round is
\* still active once attempts has reached maxAttempts.
C4_LastWrongGuessLoses ==
    /\ [](~effectPending /\ attempts >= difficulty.maxAttempts => gameOver)
    /\ [][ (~gameOver /\ attempts + 1 = difficulty.maxAttempts /\ handleSubmitGuess) =>
               LET g == Submitted
               IN  (Acceptable(g) /\ g.val # target) =>
                       /\ attempts' = difficulty.maxAttempts
                       /\ gameOver'
                       /\ hint' = GameOverHint
                       /\ pendingWinAttempts' = Null
                       /\ ~nameModalOpen' ]_vars

\* a hard round lost at the tenth guess
C4_Witness ==
    /\ difficultyKey = "hard" /\ ~effectPending
    /\ attempts = 10 /\ gameOver /\ hint = GameOverHint
    /\ pendingWinAttempts = Null /\ ~nameModalOpen
    /\ guessText # <<>>

\* C5: a rejected guess changes only the hint: attempts, target and gameOver
\* stay, the round stays active and the next guess is handled as before.
\* The empty text and a numeral that Number reads as Infinity are no whole
\* numbers; 0 and 2^32 + 1 are whole numbers out of range.
C5_RejectedGuessKeepsRound ==
    [][ (~gameOver /\ handleSubmitGuess) =>
            LET g == Submitted
            IN  /\ ~Acceptable(g) =>
                    /\ UNCHANGED <<attempts, target, gameOver, pendingWinAttempts,
                                   nameModalOpen, difficultyKey, effectPending,
                                   guessText>>
                    /\ ~gameOver'
                    /\ hint' = IF g.some
                               THEN Msg("Your guess must be between ${a} and ${b}.",
                                        difficulty.min, difficulty.max)
                               ELSE Msg("Please enter a whole number.", 0, 0)
                /\ guessText \in {<<>>, LongGuess} => ~g.some
                /\ guessText \in {<<"0">>, WideGuess} => (g.some /\ ~Acceptable(g)) ]_vars

\* the numeral of 2^32 + 1 has been rejected on an easy round that has one
\* attempt left
C5_Witness ==
    /\ difficultyKey = "easy" /\ ~effectPending
    /\ attempts = 5 /\ ~gameOver
    /\ guessText = WideGuess
    /\ hint = Msg("Your guess must be between ${a} and ${b}.", 1, 20)

\* C6: target changes and gameOver falls only in a step of startNewGame, and
\* that step sets attempts to 0, gameOver to false, pendingWinAttempts to
\* null and closes the name prompt together.
C6_RoundLeftByNewGameOnly ==
    [][ (target' # target \/ (gameOver /\ ~gameOver')) =>
            /\ StartsNewGame
            /\ attempts' = 0
            /\ ~gameOver'
            /\ pendingWinAttempts' = Null
            /\ ~nameModalOpen' ]_vars

\* a won round was saved and a new round has been started after it
C6_Witness ==
    /\ ~effectPending /\ attempts = 0 /\ ~gameOver
    /\ pendingWinAttempts = Null /\ ~nameModalOpen
    /\ \E i \in 1..Len(leaderboard) : leaderboard[i].playerName = <<"B", "o">>

\* the round is fresh for the selected difficulty
FreshRound ==
    /\ attempts = 0
    /\ ~gameOver
    /\ target >= difficulty.min /\ target <= difficulty.max
    /\ pendingWinAttempts = Null /\ ~nameModalOpen

\* C7 (as claimed): every selection of a difficulty, the active one
\* included, makes the app start a fresh round before the next guess.
C7_EverySelectionRestarts ==
    ~effectPending => \A d \in DifficultyKeys : ENABLED (SelectDifficulty(d) /\ effectPending')

\* C7 (amended): every selection of a difficulty other than the active one
\* schedules the reset, the reset gives a fresh round of the selected
\* difficulty, and no guess is handled in between.
C7_ChangedSelectionRestarts ==
    [][ /\ difficultyKey' # difficultyKey => effectPending'
        /\ (effectPending /\ ~effectPending') => FreshRound'
        /\ handleSubmitGuess => (~effectPending /\ ~effectPending') ]_vars

\* hard has been selected during an easy round and the reset has run
C7_Witness ==
    /\ difficultyKey = "hard" /\ ~effectPending
    /\ FreshRound /\ target > 20

\* C8: whenever no reset is due, so in every state in which a guess can be
\* accepted, and right after startNewGame, the target lies in [min, max] of
\* the selected difficulty.
C8_TargetInRange ==
    ~effectPending => (target >= difficulty.min /\ target <= difficulty.max)

\* a hard round whose target comes from the largest draw
C8_Witness ==
    /\ difficultyKey = "hard" /\ ~effectPending /\ ~gameOver
    /\ target = randomIntInclusive(1, 100, RandSteps - 1)
    /\ target > 50

\* easy, target 7, n attempts made, and text is submitted
Scenario(n, text) ==
    /\ difficultyKey = "easy" /\ target = 7 /\ attempts = n
    /\ guessText' = text

\* C9: an accepted wrong guess that leaves attempts below maxAttempts keeps
\* the round active, with hint "Higher." exactly when guess < target and
\* "Lower." exactly when guess > target; on easy with target 7 the guesses
\* 10, 5, 7 give "Lower.", "Higher." and a win with 3 attempts.
C9_HigherLowerHints ==
    [][ (~gameOver /\ handleSubmitGuess) =>
            LET g == Submitted
            IN  /\ (Acceptable(g) /\ g.val # target
                                  /\ attempts + 1 < difficulty.maxAttempts) =>
                       /\ ~gameOver'
                       /\ attempts' = attempts + 1
                       /\ (hint' = Msg("Higher.", 0, 0)) <=> (g.val < target)
                       /\ (hint' = Msg("Lower.", 0, 0)) <=> (g.val > target)
                /\ Scenario(0, <<"1", "0">>) =>
                       (hint' = Msg("Lower.", 0, 0) /\ attempts' = 1 /\ ~gameOver')
                /\ Scenario(1, <<"5">>) =>
                       (hint' = Msg("Higher.", 0, 0) /\ attempts' = 2 /\ ~gameOver')
                /\ Scenario(2, <<"7">>) =>
                       (gameOver' /\ attempts' = 3 /\ pendingWinAttempts' = Some(3)) ]_vars

\* easy, target 7, won with the third guess
C9_Witness ==
    /\ difficultyKey = "easy" /\ ~effectPending /\ target = 7
    /\ attempts = 3 /\ gameOver /\ guessText = <<"7">>
    /\ pendingWinAttempts = Some(3)
    /\ hint = Msg("Correct! You guessed it in ${a} attempts.", 3, 0)

\* C10: handleSaveWin with a name that is empty after trimming changes
\* neither the leaderboard nor the stored value, issues no request, and
\* keeps pendingWinAttempts and the name prompt as they were.
C10_BlankNameSavesNothing ==
    [][ (handleSaveWin /\ Trim(playerName') = <<>>) =>
            UNCHANGED <<leaderboard, storage, io, pendingWinAttempts,
                        nameModalOpen>> ]_vars

\* a space and a tab stand in the name field of the prompt of a won round:
\* Save leaves the win pending and the prompt open
C10_Witness ==
    /\ gameOver /\ pendingWinAttempts # Null /\ nameModalOpen
    /\ playerName = <<" ", "\t">>
    /\ ENABLED PressSave
    /\ leaderboard = <<>> /\ io = <<>>

-----------------------------------------------------------------------------
(* The leaderboard on a key that holds anything: the app starts on what it   *)
(* finds under the key, one round is played and its win is saved             *)

\* arrays found under the key hold at most this many entries, the full
\* board apart
RankLen == 2
\* the clock of this specification runs over 0 .. RankMaxTime
RankMaxTime == 1

\* an entry as handleSaveWin builds it (lines 201-208)
Entry(name, d, a, t) ==
    [playerName |-> name, difficulty |-> d, attempts |-> a,
     rangeMax |-> FindDifficulty(d).max, dateISO |-> t]

Ann == Entry(<<"A", "n", "n">>, "hard", 4, 0)
Bo == Entry(<<"B", "o">>, "easy", 2, 0)
\* Dee ties with OldEntry on difficulty, attempts and timestamp; Eve has the
\* later timestamp
Dee == Entry(<<"D", "e", "e">>, "easy", 5, 0)
Eve == Entry(<<"E", "v", "e">>, "easy", 5, 1)
Max == Entry(<<"M", "a", "x">>, "medium", 1, 1)

RankEntries == {Ann, Bo, OldEntry, Dee, Eve, Max}

\* a board of LeaderboardCap entries as the app leaves it: hard wins, ranked
FullBoard ==
    [i \in 1..LeaderboardCap |-> Entry(<<"P">>, "hard", ((i - 1) \div 5) + 1, 0)]

\* the arrays the key may hold: the load takes any array as it is (line 92)
RankInputs ==
    UNION { [1..n -> RankEntries] : n \in 0..RankLen } \cup {<<Bo, Ann>>, FullBoard}

\* what the player types in this specification
RankGuesses == { <<"1">>, <<"7">> }
RankNames == { <<"C", "y">> }

RankInit ==
    /\ difficultyKey = "easy"
    /\ \E k \in RandomDraws :
         target = randomIntInclusive(FindDifficulty("easy").min, FindDifficulty("easy").max, k)
    /\ attempts = 0
    /\ hint = Msg("Pick a difficulty, then guess the number.", 0, 0)
    /\ guessText = <<>>
    /\ gameOver = FALSE
    /\ leaderboard = <<>>
    /\ leaderboardOpen = FALSE
    /\ nameModalOpen = FALSE
    /\ playerName = <<>>
    /\ pendingWinAttempts = Null
    /\ effectPending = TRUE
    /\ storage \in { Stringify(x) : x \in RankInputs }
                   \cup {RawNull, RawEmpty, RawCorrupt, RawObject}
    /\ io = <<[op |-> "getItem", val |-> RawNull]>>
    /\ now = 0

\* the guess field takes the texts of RankGuesses, the name field the names
\* of RankNames; the board is bounded by what the key holds
RankTypeGuess == TypeGuessOf(RankGuesses)

RankTypeName == TypeNameOf(RankNames)

RankSaveWin == SaveWinWithin(LeaderboardCap + 1, MaxInFlight, RankMaxTime)

RankPressSave == nameModalOpen /\ RankSaveWin

RankNext ==
    \/ DifficultyEffect
    \/ RankTypeGuess
    \/ PressGuess
    \/ RankTypeName
    \/ RankPressSave
    \/ \E ok \in BOOLEAN : LoadDone(ok)
    \/ \E ok \in BOOLEAN : SaveDone(ok)

RankSpec == RankInit /\ [][RankNext]_vars

-----------------------------------------------------------------------------
(* Properties of the ranking *)

\* the entries of s, and how often e is among them
Range(s) == { s[i] : i \in 1..Len(s) }
Count(s, e) == Cardinality({ i \in 1..Len(s) : s[i] = e })

\* a ranks strictly above b: easier difficulty, then fewer attempts, then
\* the more recent timestamp
RanksAbove(a, b) ==
    LET da == CHOOSE i \in 1..3 : <<"easy", "medium", "hard">>[i] = a.difficulty
        db == CHOOSE i \in 1..3 : <<"easy", "medium", "hard">>[i] = b.difficulty
    IN  \/ da < db
        \/ da = db /\ a.attempts < b.attempts
        \/ da = db /\ a.attempts = b.attempts /\ a.dateISO > b.dateISO

\* no entry of s stands behind one it ranks above
Ranked(s) == \A i, j \in 1..Len(s) : i < j => ~RanksAbove(s[j], s[i])

\* a step of handleSaveWin that got past its early returns
SaveAccepted(A) == A /\ Len(io') = Len(io) + 1

\* the entry such a step has built
SavedEntry ==
    Entry(Trim(playerName'), difficultyKey, pendingWinAttempts.val, now')

\* C11: after every successful handleSaveWin the collection holds at most 50
\* entries, as many as the previous entries and the new one allow; every entry
\* kept is one of them, and no entry dropped ranks above an entry kept.
C11_KeepsTopFifty ==
    [][ SaveAccepted(RankSaveWin) =>
            LET all == <<SavedEntry>> \o leaderboard
                kept == leaderboard'
            IN  /\ Len(kept) <= 50
                /\ Len(kept) = (IF Len(all) < 50 THEN Len(all) ELSE 50)
                /\ \A e \in Range(all) \cup Range(kept) : Count(kept, e) <= Count(all, e)
                /\ \A d \in Range(all) : Count(kept, d) < Count(all, d) =>
                       \A k \in Range(kept) : ~RanksAbove(d, k) ]_vars

\* an easy win was saved on the full board: it stands first among 50
\* entries, and one of the five entries with 10 attempts is gone
C11_Witness ==
    /\ Len(leaderboard) = 50
    /\ leaderboard[1].playerName = <<"C", "y">>
    /\ Count(leaderboard, Entry(<<"P">>, "hard", 10, 0)) = 4

\* C12: after every successful handleSaveWin the collection is ordered by
\* difficulty (easy, medium, hard), then by fewer attempts, then by the more
\* recent timestamp; with Bo (easy, 2) and Ann (hard, 4) on the board, saving
\* Cy (easy, 5) gives Bo, Cy, Ann.
C12_SavedBoardIsRanked ==
    [][ SaveAccepted(RankSaveWin) =>
            /\ Ranked(leaderboard')
            /\ (leaderboard = <<Bo, Ann>> /\ pendingWinAttempts = Some(5)) =>
                   \E t \in 0..RankMaxTime :
                       leaderboard' = <<Bo, Entry(<<"C", "y">>, "easy", 5, t), Ann>> ]_vars

\* Cy's win with 5 attempts was saved on the board of Bo and Ann
C12_Witness ==
    /\ Len(leaderboard) = 3
    /\ leaderboard[1] = Bo /\ leaderboard[3] = Ann
    /\ leaderboard[2].playerName = <<"C", "y">> /\ leaderboard[2].attempts = 5
    /\ Len(io) = 1 /\ Head(io).op = "setItem"

\* the arrangements of the entries of s
Arrangements(s) ==
    { [i \in 1..Len(s) |-> s[p[i]]] :
        p \in { q \in [1..Len(s) -> 1..Len(s)] : \A i, j \in 1..Len(s) : i # j => q[i] # q[j] } }

\* C13 (as claimed): for every collection x, sortLeaderboard(sortLeaderboard(x))
\* = sortLeaderboard(x), the result is a permutation of x, and any two entries
\* come out in the same relative order however x is arranged, also when they
\* tie on difficulty, attempts and timestamp. x is the array under the key.
C13_SortIsArrangementFree ==
    LET x == storage.entries
        sorted == sortLeaderboard(x)
    IN  Len(x) <= RankLen =>
          /\ sortLeaderboard(sorted) = sorted
          /\ Len(sorted) = Len(x) /\ \A e \in Range(x) : Count(sorted, e) = Count(x, e)
          /\ \A y \in Arrangements(x) : sortLeaderboard(y) = sorted

\* the startup load yields nothing: getItem fails, or the key holds no array
LoadYieldsNothing ==
    \E ok \in BOOLEAN : LoadDone(ok) /\ ~(ok /\ storage.kind = "array")

\* C14: when the key holds nothing, an empty text, a text that is no JSON or
\* the JSON of a non-array, or when getItem fails, the startup load adds
\* nothing to the in-memory collection, which is empty unless a win has been
\* saved while the load was awaited, and leaves the round untouched; an
\* active round goes on accepting guesses.
C14_LoadFailsQuietly ==
    /\ [][ /\ LoadYieldsNothing =>
                /\ leaderboard' = leaderboard
                /\ (\A i \in 1..Len(io) : io[i].op # "setItem") => leaderboard' = <<>>
                /\ UNCHANGED <<difficultyKey, target, attempts, hint, guessText,
                               gameOver, pendingWinAttempts, nameModalOpen,
                               effectPending>>
           /\ ( /\ storage.kind # "array" \/ leaderboard = <<>>
                /\ io = <<>>
                /\ PressGuess /\ Acceptable(parseGuess(guessText)) ) =>
                  attempts' = attempts + 1 ]_vars
    /\ []((io = <<>> /\ Idle /\ ~gameOver) =>
             \A t \in RankGuesses : ENABLED (RankTypeGuess /\ guessText' = t))

\* the key held a text that is no JSON: the load is over, the board is
\* empty, and two guesses have been counted since
C14_Witness ==
    /\ storage = RawCorrupt /\ io = <<>>
    /\ leaderboard = <<>>
    /\ attempts = 2 /\ ~gameOver

-----------------------------------------------------------------------------
(* Properties of the storage *)

\* C15: when the setItem of a save fails, the in-memory collection stays the
\* ranked and truncated collection the save has set, the stored value stays
\* as it was, the save flow completes (prompt closed, pendingWinAttempts
\* cleared, leaderboard opened), and target, attempts and gameOver are
\* unchanged.
C15_FailedWriteIsSwallowed ==
    [][ SaveDone(FALSE) =>
            /\ leaderboard' = leaderboard
            /\ leaderboard' = Head(io).val.entries
            /\ ~nameModalOpen' /\ pendingWinAttempts' = Null /\ leaderboardOpen'
            /\ UNCHANGED <<target, attempts, gameOver, difficultyKey, storage>> ]_vars

\* a win was saved on an empty key and the write has failed: the board
\* holds the entry, the key holds nothing, the flow is over
C15_Witness ==
    /\ io = <<>> /\ storage = RawNull
    /\ Len(leaderboard) = 1 /\ leaderboard[1].playerName = <<"B", "o">>
    /\ gameOver /\ ~nameModalOpen /\ pendingWinAttempts = Null /\ leaderboardOpen

-----------------------------------------------------------------------------
(* The leaderboard and its storage with requests overlapping: the startup    *)
(* load, writes and removals are served in turn, none of them fails, while   *)
(* the player goes on playing                                                *)

\* a win is saved only while the leaderboard holds fewer entries than this
StoreMaxBoard == 1
\* a request is issued only while fewer requests than this are awaited
StoreMaxInFlight == 2

\* what the player types in this specification
StoreGuesses == { <<"1">>, <<"7">> }
StoreNames == { <<"B", "o">> }

\* the guess field takes the texts of StoreGuesses, the name field the names
\* of StoreNames; the clock stands still
StoreTypeGuess == TypeGuessOf(StoreGuesses)

StoreTypeName == TypeNameOf(StoreNames)

StoreSaveWin == SaveWinWithin(StoreMaxBoard, StoreMaxInFlight, now)

StorePressSave == nameModalOpen /\ StoreSaveWin

StoreClearConfirmed == ClearWithin(StoreMaxInFlight)

StoreNext ==
    \/ DifficultyEffect
    \/ SetDifficultyKey
    \/ NewGame
    \/ StoreTypeGuess
    \/ PressGuess
    \/ StoreTypeName
    \/ SkipNamePrompt
    \/ StorePressSave
    \/ OpenLeaderboard
    \/ ClearCancelled
    \/ StoreClearConfirmed
    \/ LoadDone(TRUE)
    \/ SaveDone(TRUE)
    \/ ClearDone(TRUE)

StoreSpec == Init /\ [][StoreNext]_vars

-----------------------------------------------------------------------------
(* The first round only: as above, without New Game, the difficulty chips    *)
(* and Clear, so that every save is a save of the one round's win            *)

\* a win is saved only while the leaderboard holds fewer entries than this
RoundMaxBoard == 3

RoundSaveWin == SaveWinWithin(RoundMaxBoard, StoreMaxInFlight, now)

RoundPressSave == nameModalOpen /\ RoundSaveWin

RoundNext ==
    \/ DifficultyEffect
    \/ StoreTypeGuess
    \/ PressGuess
    \/ StoreTypeName
    \/ SkipNamePrompt
    \/ OpenLeaderboard
    \/ CloseLeaderboard
    \/ RoundPressSave
    \/ LoadDone(TRUE)
    \/ SaveDone(TRUE)

RoundSpec == Init /\ [][RoundNext]_vars

-----------------------------------------------------------------------------
(* Properties of the leaderboard under overlapping requests *)

\* no write is awaited behind the request at the head of io
NoWriteBehind == \A i \in 2..Len(io) : io[i].op # "setItem"

\* what a load would read from the key: absent counts as empty
Persisted == IF storage.kind = "array" THEN storage.entries ELSE <<>>

\* C16 (as claimed): a confirmed clear empties the in-memory collection,
\* and when its removal has succeeded, with no win saved since the clear,
\* the in-memory collection is empty and the key holds nothing, whatever
\* went before the clear.
C16_ClearEmptiesBoardAndKey ==
    [][ /\ StoreClearConfirmed => leaderboard' = <<>>
        /\ (ClearDone(TRUE) /\ NoWriteBehind) =>
               (leaderboard' = <<>> /\ storage' = RawNull) ]_vars

\* the round the state shows has been won: it is over with the hint of a
\* correct guess, and its win is pending with the attempts made
RoundIsWon ==
    /\ gameOver /\ attempts >= 1
    /\ hint = Msg(IF attempts = 1
                  THEN "Correct! You guessed it in ${a} attempt."
                  ELSE "Correct! You guessed it in ${a} attempts.", attempts, 0)
    /\ pendingWinAttempts = Some(attempts)

\* e records the round the state shows
RecordsRound(e) ==
    /\ e.attempts = attempts
    /\ 1 <= e.attempts /\ e.attempts <= FindDifficulty(e.difficulty).maxAttempts
    /\ e.difficulty = difficultyKey
    /\ e.rangeMax = FindDifficulty(e.difficulty).max

\* C17: the name prompt, which holds Save, is opened by a winning guess
\* alone, so a round whose prompt was skipped gets no further prompt, and
\* handleSaveWin adds nothing without a pending win; and every entry
\* handleSaveWin adds is added from the open prompt and records the round
\* on screen, which is won: attempts is the round's final count, within 1 ..
\* maxAttempts of the entry's difficulty, difficulty is the round's, rangeMax
\* is that difficulty's max. Lost and active rounds have no pending win.
C17_EntriesRecordWonRounds ==
    [][ /\ (~nameModalOpen /\ nameModalOpen') =>
               (PressGuess /\ ~gameOver /\ RoundIsWon')
        /\ (~pendingWinAttempts.some /\ StoreSaveWin) => leaderboard' = leaderboard
        /\ SaveAccepted(StoreSaveWin) =>
               /\ nameModalOpen
               /\ RoundIsWon
               /\ \E e \in Range(leaderboard') :
                     /\ Count(leaderboard', e) = Count(leaderboard, e) + 1
                     /\ \A f \in Range(leaderboard') \ {e} :
                            Count(leaderboard', f) = Count(leaderboard, f)
                     /\ RecordsRound(e) ]_vars

\* a hard round won with the second guess has been saved from the prompt
C17_Witness ==
    /\ difficultyKey = "hard" /\ gameOver /\ attempts = 2 /\ nameModalOpen
    /\ leaderboard = <<Entry(<<"B", "o">>, "hard", 2, 0)>>
    /\ io # <<>> /\ io[Len(io)].op = "setItem"

\* C18 (as claimed): whenever no request is awaited, the key (absent
\* counted as empty) holds the in-memory collection. No request fails in
\* StoreSpec.
C18_KeyFollowsBoard == io = <<>> => Persisted = leaderboard

\* C19 (as claimed): the one won round of RoundSpec contributes at most
\* one entry, however often Save is pressed.
C19_OneEntryPerWin ==
    Cardinality({ i \in 1..Len(leaderboard) : leaderboard[i].playerName = <<"B", "o">> }) <= 1

\* the startup load is still awaited
LoadAwaited == \E i \in 1..Len(io) : io[i].op = "getItem"

\* C20 (as claimed): the completion of the startup load removes no entry
\* from the in-memory collection, which until then holds only entries
\* added by handleSaveWin; and a save issued while the load is awaited, with
\* no clear awaited, writes a collection that holds every entry the key
\* holds.
C20_LoadAndSaveKeepEntries ==
    [][ /\ LoadDone(TRUE) =>
               \A e \in Range(leaderboard) : Count(leaderboard', e) >= Count(leaderboard, e)
        /\ ( /\ SaveAccepted(StoreSaveWin) /\ LoadAwaited
             /\ \A i \in 1..Len(io) : io[i].op # "removeItem" ) =>
               \A e \in Range(Persisted) : e \in Range(leaderboard') ]_vars

\* the write at the head of io carries no entry of the round on screen, so
\* the save that issued it was made in an earlier round
WriteOfEarlierRound ==
    /\ io # <<>> /\ Head(io).op = "setItem"
    /\ \A e \in Range(Head(io).val.entries) : ~RecordsRound(e)

\* C21 (as claimed): when the write of a save made in an earlier round
\* completes while the win of a later round is pending, the continuation
\* of that save neither clears pendingWinAttempts nor closes the prompt.
C21_LateSaveKeepsNewRound ==
    [][ ( /\ ~effectPending /\ pendingWinAttempts.some
          /\ WriteOfEarlierRound /\ SaveDone(TRUE) ) =>
            UNCHANGED <<pendingWinAttempts, nameModalOpen>> ]_vars

\* C22: a win is pending only on a round that is over by a correct guess,
\* with pendingWinAttempts equal to attempts, and the name prompt is open
\* only while a win is pending; so a lost or an active round has neither.
C22_PendingWinMeansWonRound ==
    /\ pendingWinAttempts.some => RoundIsWon
    /\ nameModalOpen => pendingWinAttempts.some

\* a medium round won with the third guess, its prompt skipped: the win
\* stays pending with the prompt closed
C22_Witness ==
    /\ difficultyKey = "medium" /\ ~effectPending
    /\ gameOver /\ attempts = 3
    /\ pendingWinAttempts = Some(3) /\ ~nameModalOpen
    /\ io = <<>>

====
